---- MODULE Spec2Model ----
(***************************************************************************)
(* Model of rust_webdds_client (src/src/main.rs): an axum HTTP front end   *)
(* bridging a keyed DDS bus.  A background task drains the SensorStatus    *)
(* sample stream into the sled tree "status"; PUT /sensor/config publishes *)
(* a SensorConfig through the one DataWriter behind a tokio Mutex; GET     *)
(* /sensor/status reads the tree entry "radio"; GET /sensor/list returns a *)
(* fixed list.                                                             *)
(***************************************************************************)
EXTENDS Integers, Sequences, FiniteSets, TLC

(***************************************************************************)
(* Bounds of the model.                                                    *)
(***************************************************************************)
\* number of HTTP requests (handler tasks) a behaviour contains
NumHandlers == 2
\* number of items the subscription stream yields in a behaviour
MaxItems == 2

(***************************************************************************)
(* u32 fields.  A u32 is kept as two 16-bit limbs <<hi, lo>>, its value    *)
(* being hi * 2^16 + lo, so that the whole range 0 .. 2^32 - 1 is covered  *)
(* with machine integers.                                                  *)
(***************************************************************************)
Limb == 65536

U32Zero == <<0, 0>>
U32Max == <<Limb - 1, Limb - 1>>
U32Of(n) == <<n \div Limb, n % Limb>>

(***************************************************************************)
(* Strings are sequences of characters, so that JSON escaping is visible.  *)
(***************************************************************************)
Quote == "\""
Backslash == "\\"

Radio == <<"r", "a", "d", "i", "o">>
Lidar == <<"l", Quote>>
EmptyString == <<>>

(***************************************************************************)
(* struct SensorConfig / struct SensorStatus: the same four fields.        *)
(***************************************************************************)
SensorConfig(t, f, p, s) ==
    [sensor_type |-> t, frequency |-> f, power |-> p, squelti |-> s]

SensorStatus(t, f, p, s) ==
    [sensor_type |-> t, frequency |-> f, power |-> p, squelti |-> s]

\* #[derive(Default)]: String::default() = "", u32::default() = 0
DefaultSensorConfig == SensorConfig(EmptyString, U32Zero, U32Zero, U32Zero)

\* impl Keyed: the key of a sample is its sensor_type
key(v) == v.sensor_type

(***************************************************************************)
(* serde_json.  A JSON text is modelled by its tokens: wf says whether the *)
(* bytes are a JSON object at all, members is the object's members in      *)
(* order, each a name with either a string literal (its escaped            *)
(* characters) or a number literal (its decimal digits).                   *)
(***************************************************************************)
StrMember(n, chars) == [name |-> n, isnum |-> FALSE, str |-> chars, digits |-> <<>>]
NumMember(n, ds) == [name |-> n, isnum |-> TRUE, str |-> <<>>, digits |-> ds]

JsonObject(ms) == [wf |-> TRUE, members |-> ms]
NotJson == [wf |-> FALSE, members |-> <<>>]

\* one character of a string literal, escaped as serde_json writes it
EscapeChar(c) == IF c = Quote THEN <<Backslash, Quote>>
                 ELSE IF c = Backslash THEN <<Backslash, Backslash>>
                 ELSE <<c>>

RECURSIVE Escape(_)
Escape(s) == IF s = <<>> THEN <<>>
             ELSE EscapeChar(Head(s)) \o Escape(Tail(s))

\* In the recursive operators below an intermediate result is bound by
\* "x \in {e}", which makes the checker compute e once.

\* the characters of a string literal; ok is FALSE on a dangling or
\* unknown escape
RECURSIVE Unescape(_)
Unescape(e) ==
    IF e = <<>> THEN [ok |-> TRUE, val |-> <<>>]
    ELSE IF Head(e) = Backslash
         THEN IF Len(e) >= 2 /\ e[2] \in {Quote, Backslash}
              THEN CHOOSE u \in { [ok |-> r.ok, val |-> <<e[2]>> \o r.val] :
                                     r \in {Unescape(SubSeq(e, 3, Len(e)))} } : TRUE
              ELSE [ok |-> FALSE, val |-> <<>>]
         ELSE IF Head(e) = Quote
              THEN [ok |-> FALSE, val |-> <<>>]
              ELSE CHOOSE u \in { [ok |-> r.ok, val |-> <<Head(e)>> \o r.val] :
                                     r \in {Unescape(Tail(e))} } : TRUE

\* quotient and remainder of a u32 by ten, limb by limb
DivMod10(x) ==
    LET t == (x[1] % 10) * Limb + x[2]
    IN  [q |-> <<x[1] \div 10, t \div 10>>, r |-> t % 10]

\* the decimal digits of a u32, most significant first (itoa)
RECURSIVE Digits(_)
Digits(x) ==
    CHOOSE ds \in { IF d.q = U32Zero THEN <<d.r>> ELSE Digits(d.q) \o <<d.r>> :
                       d \in {DivMod10(x)} } : TRUE

\* x * 10 + d; ok is FALSE when the result does not fit a u32
MulAdd10(x, d) ==
    LET lo == x[2] * 10 + d
        hi == x[1] * 10 + (lo \div Limb)
    IN  [ok |-> hi < Limb, val |-> <<hi % Limb, lo % Limb>>]

\* a number literal read as a u32: digits, no leading zero, in range
RECURSIVE ParseAcc(_, _)
ParseAcc(ds, acc) ==
    IF ds = <<>> THEN [ok |-> TRUE, val |-> acc]
    ELSE CHOOSE r \in { IF n.ok THEN ParseAcc(Tail(ds), n.val)
                           ELSE [ok |-> FALSE, val |-> U32Zero] :
                           n \in {MulAdd10(acc, Head(ds))} } : TRUE

ParseU32(ds) ==
    IF ds = <<>> \/ (Len(ds) > 1 /\ Head(ds) = 0)
    THEN [ok |-> FALSE, val |-> U32Zero]
    ELSE ParseAcc(ds, U32Zero)

\* faulty variant: the record written names its last field squelch, unlike
\* the record GET /sensor/status reads
to_string_Squelch(v) ==
    JsonObject(<< StrMember("sensor_type", Escape(v.sensor_type)),
                  NumMember("frequency", Digits(v.frequency)),
                  NumMember("power", Digits(v.power)),
                  NumMember("squelch", Digits(v.squelti)) >>)

\* serde_json::to_string(&v): the fields in declaration order
to_string(v) ==
    JsonObject(<< StrMember("sensor_type", Escape(v.sensor_type)),
                  NumMember("frequency", Digits(v.frequency)),
                  NumMember("power", Digits(v.power)),
                  NumMember("squelti", Digits(v.squelti)) >>)

\* the members of an object that carry the field n
MembersNamed(ms, n) == {i \in 1 .. Len(ms) : ms[i].name = n}

\* the value of string field n: present once, a string literal
StrField(ms, n) ==
    LET is == MembersNamed(ms, n)
    IN  IF Cardinality(is) # 1 THEN [ok |-> FALSE, val |-> <<>>]
        ELSE LET m == ms[CHOOSE i \in is : TRUE]
             IN  IF m.isnum THEN [ok |-> FALSE, val |-> <<>>]
                 ELSE Unescape(m.str)

\* the value of u32 field n: present once, a number literal in range
NumField(ms, n) ==
    LET is == MembersNamed(ms, n)
    IN  IF Cardinality(is) # 1 THEN [ok |-> FALSE, val |-> U32Zero]
        ELSE LET m == ms[CHOOSE i \in is : TRUE]
             IN  IF m.isnum THEN ParseU32(m.digits)
                 ELSE [ok |-> FALSE, val |-> U32Zero]

\* serde_json::from_slice::<SensorConfig>(&value): every field is required,
\* a repeated field is an error, members of other names are skipped
from_slice(b) ==
    IF ~b.wf THEN [ok |-> FALSE, val |-> DefaultSensorConfig]
    ELSE LET t == StrField(b.members, "sensor_type")
             f == NumField(b.members, "frequency")
             p == NumField(b.members, "power")
             s == NumField(b.members, "squelti")
         IN  IF t.ok /\ f.ok /\ p.ok /\ s.ok
             THEN [ok |-> TRUE, val |-> SensorConfig(t.val, f.val, p.val, s.val)]
             ELSE [ok |-> FALSE, val |-> DefaultSensorConfig]

(***************************************************************************)
(* Inputs the environment can supply.                                      *)
(***************************************************************************)
\* request bodies of PUT /sensor/config
Commands == { SensorConfig(Radio, U32Of(100), U32Of(5), U32Of(2)),
              SensorConfig(Lidar, U32Max, U32Zero, <<1, 0>>) }

\* samples the SensorStatus topic can carry
StatusValues == { SensorStatus(Radio, U32Of(100), U32Of(5), U32Of(2)),
                  SensorStatus(Radio, U32Max, U32Zero, <<1, 0>>),
                  SensorStatus(Lidar, U32Of(7), U32Of(7), U32Of(7)) }

\* what async_reader.next().await can yield: Some(Ok(Sample::Value(v))),
\* Some(Ok(Sample::Dispose(key))), Some(Err(e)) and None
ValueItem(v) == [t |-> "value", v |-> v]
DisposeItem(k) == [t |-> "dispose", v |-> SensorStatus(k, U32Zero, U32Zero, U32Zero)]
ErrorItem == [t |-> "error", v |-> DefaultSensorConfig]
EndItem == [t |-> "end", v |-> DefaultSensorConfig]
NoItem == [t |-> "none", v |-> DefaultSensorConfig]

Items == {ValueItem(v) : v \in StatusValues}
             \cup {DisposeItem(Radio), ErrorItem, EndItem}

(***************************************************************************)
(* The sled tree "status": a map from key to bytes.                        *)
(***************************************************************************)
EmptyTree == [k \in {} |-> NotJson]

\* Tree::insert(key, value)
insert(tree, k, b) ==
    [x \in (DOMAIN tree) \cup {k} |-> IF x = k THEN b ELSE tree[x]]

\* Tree::get(key): Some(value) is <<value>>, None is <<>>
get(tree, k) == IF k \in DOMAIN tree THEN <<tree[k]>> ELSE <<>>

\* bytes an earlier build, whose status record had no squelti, left behind
OldShapeBytes ==
    JsonObject(<< StrMember("sensor_type", Radio),
                  NumMember("frequency", <<1, 0, 0>>),
                  NumMember("power", <<5>>) >>)

\* sled::open(topic_name) opens the directory the last run left: the tree
\* holds whatever was stored there
InitialTrees ==
    { EmptyTree,
      insert(EmptyTree, Radio,
             to_string(SensorStatus(Radio, U32Of(7), U32Zero, U32Zero))),
      insert(EmptyTree, Radio, OldShapeBytes),
      insert(EmptyTree, Radio, NotJson) }

(***************************************************************************)
(* HTTP requests and responses.                                            *)
(***************************************************************************)
Handlers == 1 .. NumHandlers

Kinds == {"list", "config", "status"}

OK == 200
INTERNAL_SERVER_ERROR == 500

SensorList(n, p) == [name |-> n, path |-> p]

Response(st, b, l) == [status |-> st, body |-> b, list |-> l]
NoResponse == Response(0, DefaultSensorConfig, <<>>)

VARIABLES
    db_status,      \* the sled tree "status"
    sub_pc,         \* the subscriber task: "next", "body" or "ended"
    sample,         \* the item the subscriber task holds
    nitems,         \* items the stream has yielded
    last_value,     \* per key, the last Sample::Value the stream yielded
    ser_log,        \* the results of the loop's to_string calls: TRUE is Ok
    pc,             \* per request: where its handler task is
    kind,           \* per request: which route it is for
    payload,        \* per request: the Json<SensorConfig> body
    resp,           \* per request: the response sent
    locked,         \* the tokio Mutex around the DataWriter is held
    waiters,        \* the Mutex's FIFO queue of waiting tasks
    written,        \* per request: the values passed to async_write
    result          \* per request: what async_write returned

vars == << db_status, sub_pc, sample, nitems, last_value, ser_log,
           pc, kind, payload, resp, locked, waiters, written, result >>

sub_vars == << db_status, sub_pc, sample, nitems, last_value, ser_log >>
req_vars == << pc, kind, payload, resp, locked, waiters, written, result >>

Init ==
    /\ db_status \in InitialTrees
    /\ sub_pc = "next"
    /\ sample = NoItem
    /\ nitems = 0
    /\ last_value = EmptyTree
    /\ ser_log = <<>>
    /\ pc = [h \in Handlers |-> "idle"]
    /\ kind = [h \in Handlers |-> "list"]
    /\ payload = [h \in Handlers |-> DefaultSensorConfig]
    /\ resp = [h \in Handlers |-> NoResponse]
    /\ locked = FALSE
    /\ waiters = <<>>
    /\ written = [h \in Handlers |-> <<>>]
    /\ result = [h \in Handlers |-> "none"]

(***************************************************************************)
(* The background subscriber task (main.rs 97-105).                        *)
(***************************************************************************)
\* faulty variant: the loop goes round on whatever next() yields
LoopContinues_Always(it) == TRUE

\* while let Some(Ok(Sample::Value(v))) = ...: the pattern the loop goes on
LoopContinues(it) == it.t = "value"

\* faulty variant: the loop stores a value only under a key the tree does
\* not hold yet
TreeAfter_KeepsFirst(tree, it) ==
    IF it.t = "value" /\ key(it.v) \notin DOMAIN tree
    THEN insert(tree, key(it.v), to_string(it.v))
    ELSE tree

\* faulty variant: the loop removes the entry of a disposed key
TreeAfter_DisposeRemoves(tree, it) ==
    IF it.t = "value"
    THEN insert(tree, key(it.v), to_string(it.v))
    ELSE IF it.t = "dispose"
         THEN [x \in (DOMAIN tree) \ {key(it.v)} |-> tree[x]]
         ELSE tree

\* faulty variant: the loop stores every value under the key the status
\* handler reads
TreeAfter_FixedKey(tree, it) ==
    IF it.t = "value"
    THEN insert(tree, Radio, to_string(it.v))
    ELSE tree

\* the tree after the loop has handled item it: a value is serialized and
\* inserted under its key, anything else ends the loop and stores nothing
TreeAfter(tree, it) ==
    IF LoopContinues(it)
    THEN insert(tree, key(it.v), to_string(it.v))
    ELSE tree

\* faulty variant: the task shares the Mutex of the DataWriter
SubscriberBlocked_ByWriter(held, queue) == held

\* whether the task has to wait for the request handlers: it owns
\* async_reader and its clone of the tree, and takes no lock
SubscriberBlocked(held, queue) == FALSE

\* async_reader.next().await yields an item
SubNext ==
    /\ sub_pc = "next"
    /\ ~SubscriberBlocked(locked, waiters)
    /\ nitems < MaxItems
    /\ \E it \in Items :
          /\ sample' = it
          /\ last_value' = IF it.t = "value"
                           THEN insert(last_value, key(it.v), it.v)
                           ELSE last_value
    /\ sub_pc' = "body"
    /\ nitems' = nitems + 1
    /\ UNCHANGED << db_status, ser_log, req_vars >>

\* the pattern match and the loop body on the item in hand; to_string
\* returns Ok for a value
SubBody ==
    /\ sub_pc = "body"
    /\ ~SubscriberBlocked(locked, waiters)
    /\ db_status' = TreeAfter(db_status, sample)
    /\ IF LoopContinues(sample)
       THEN /\ sub_pc' = "next"
            /\ sample' = NoItem
            /\ ser_log' = Append(ser_log, TRUE)
       ELSE /\ sub_pc' = "ended"
            /\ sample' = sample
            /\ ser_log' = ser_log
    /\ UNCHANGED << nitems, last_value, req_vars >>

\* faulty variant: a value that could not be serialized is stored as empty
\* bytes
TreeAfterSerErr_StoresEmpty(tree, it) == insert(tree, key(it.v), NotJson)

\* the tree after the loop body when to_string returned Err: the
\* "if let Ok(json)" has no else branch
TreeAfterSerErr(tree, it) == tree

\* where the task is after the loop body when to_string returned Err: the
\* while loop goes round
PcAfterSerErr == "next"

\* the loop body on a value for which to_string returns Err.  For the two
\* structs of this program serde_json has no failing case (String and u32
\* fields, written to memory), so this step is not part of Spec.
SubBodySerErr ==
    /\ sub_pc = "body"
    /\ ~SubscriberBlocked(locked, waiters)
    /\ LoopContinues(sample)
    /\ db_status' = TreeAfterSerErr(db_status, sample)
    /\ sub_pc' = PcAfterSerErr
    /\ sample' = NoItem
    /\ ser_log' = Append(ser_log, FALSE)
    /\ UNCHANGED << nitems, last_value, req_vars >>

(***************************************************************************)
(* Requests.  They are numbered in the order they arrive.                  *)
(***************************************************************************)
Arrive(h) ==
    /\ pc[h] = "idle"
    /\ (h > 1 => pc[h - 1] # "idle")
    /\ \E k \in Kinds :
          /\ kind' = [kind EXCEPT ![h] = k]
          /\ \E c \in (IF k = "config" THEN Commands ELSE {DefaultSensorConfig}) :
                payload' = [payload EXCEPT ![h] = c]
    /\ pc' = [pc EXCEPT ![h] = "start"]
    /\ UNCHANGED << sub_vars, resp, locked, waiters, written, result >>

(***************************************************************************)
(* GET /sensor/list (main.rs 138-150).                                     *)
(***************************************************************************)
api_list == << SensorList("Sensor_Module_A", "/sensor/module_A"),
               SensorList("Sensor_Module_B", "/sensor/module_B") >>

ListResponse == Response(OK, DefaultSensorConfig, api_list)

get_handler_sensor_list(h) ==
    /\ pc[h] = "start"
    /\ kind[h] = "list"
    /\ resp' = [resp EXCEPT ![h] = ListResponse]
    /\ pc' = [pc EXCEPT ![h] = "done"]
    /\ UNCHANGED << sub_vars, kind, payload, locked, waiters, written, result >>

(***************************************************************************)
(* GET /sensor/status (main.rs 186-200).                                   *)
(***************************************************************************)
ErrorResponse == Response(INTERNAL_SERVER_ERROR, DefaultSensorConfig, <<>>)

\* faulty variant: the handler unwraps the Option as well
StatusOutcome_UnwrapsNone(tree) ==
    LET got == get(tree, Radio)
    IN  IF got # <<>> /\ from_slice(got[1]).ok
        THEN [pc |-> "done", resp |-> Response(OK, from_slice(got[1]).val, <<>>)]
        ELSE [pc |-> "panicked", resp |-> NoResponse]

\* faulty variant: without an entry "radio" the handler answers with
\* another entry of the tree
StatusOutcome_AnyKey(tree) ==
    LET got == IF Radio \in DOMAIN tree THEN <<tree[Radio]>>
               ELSE IF DOMAIN tree # {}
                    THEN <<tree[CHOOSE k \in DOMAIN tree : TRUE]>>
                    ELSE <<>>
    IN  IF got # <<>>
        THEN LET deser_json == from_slice(got[1])
             IN  IF deser_json.ok
                 THEN [pc |-> "done", resp |-> Response(OK, deser_json.val, <<>>)]
                 ELSE [pc |-> "panicked", resp |-> NoResponse]
        ELSE [pc |-> "done", resp |-> ErrorResponse]

\* the handler's outcome on the tree: the entry "radio" deserialized, the
\* error response when there is none, a panic when unwrap() meets an Err
StatusOutcome(tree) ==
    LET got == get(tree, Radio)
    IN  IF got # <<>>
        THEN LET deser_json == from_slice(got[1])
             IN  IF deser_json.ok
                 THEN [pc |-> "done", resp |-> Response(OK, deser_json.val, <<>>)]
                 ELSE [pc |-> "panicked", resp |-> NoResponse]
        ELSE [pc |-> "done", resp |-> ErrorResponse]

get_handler_sensor_status(h) ==
    /\ pc[h] = "start"
    /\ kind[h] = "status"
    /\ LET out == StatusOutcome(db_status)
       IN  /\ resp' = [resp EXCEPT ![h] = out.resp]
           /\ pc' = [pc EXCEPT ![h] = out.pc]
    /\ UNCHANGED << sub_vars, kind, payload, locked, waiters, written, result >>

(***************************************************************************)
(* PUT /sensor/config (main.rs 161-176).                                   *)
(***************************************************************************)
\* writer.lock().await: the task joins the Mutex's queue
put_lock(h) ==
    /\ pc[h] = "start"
    /\ kind[h] = "config"
    /\ waiters' = Append(waiters, h)
    /\ pc' = [pc EXCEPT ![h] = "lock"]
    /\ UNCHANGED << sub_vars, kind, payload, resp, locked, written, result >>

\* faulty variant: the lock is granted whether or not somebody holds it
CanAcquire_IgnoresHolder(h, held, queue) ==
    /\ queue # <<>>
    /\ Head(queue) = h

\* the Mutex grants the lock to the task at the head of its queue, when
\* nobody holds it
CanAcquire(h, held, queue) ==
    /\ ~held
    /\ queue # <<>>
    /\ Head(queue) = h

\* the lock is granted and writer.async_write(payload.clone(), None) starts
put_acquire(h) ==
    /\ pc[h] = "lock"
    /\ CanAcquire(h, locked, waiters)
    /\ locked' = TRUE
    /\ waiters' = Tail(waiters)
    /\ written' = [written EXCEPT ![h] = Append(@, payload[h])]
    /\ pc' = [pc EXCEPT ![h] = "write"]
    /\ UNCHANGED << sub_vars, kind, payload, resp, result >>

\* faulty variant: the success branch answers with the default value
ConfigResponse_DefaultOnOk(ok, c) ==
    IF ok THEN Response(OK, DefaultSensorConfig, <<>>)
    ELSE Response(INTERNAL_SERVER_ERROR, DefaultSensorConfig, <<>>)

\* faulty variant: the failure branch echoes the request body
ConfigResponse_EchoOnErr(ok, c) ==
    IF ok THEN Response(OK, c, <<>>)
    ELSE Response(INTERNAL_SERVER_ERROR, c, <<>>)

\* the response for the result of async_write
ConfigResponse(ok, c) ==
    IF ok THEN Response(OK, c, <<>>)
    ELSE Response(INTERNAL_SERVER_ERROR, DefaultSensorConfig, <<>>)

\* faulty variant: the guard is released on the success branch only
HeldAfterReturn_OnlyOnOk(ok) == ~ok

\* whether the Mutex is still held once the handler has returned: the guard
\* is dropped at the end of the function on either branch
HeldAfterReturn(ok) == FALSE

\* faulty variant: the handler stores the command it published as the
\* sensor's status
TreeAfterPublish_WritesThrough(tree, c, ok) ==
    IF ok THEN insert(tree, key(c), to_string(c)) ELSE tree

\* the tree after the handler has returned: the handler holds the writer
\* only, and never the tree
TreeAfterPublish(tree, c, ok) == tree

\* faulty variant: a failed publish is tried once more
WrittenAfterResult_Retries(w, c, ok) == IF ok THEN w ELSE Append(w, c)

\* the values passed to async_write once the handler has returned: both
\* branches answer without another call
WrittenAfterResult(w, c, ok) == w

\* async_write returns Ok or Err; the handler answers and drops the guard
put_return(h) ==
    /\ pc[h] = "write"
    /\ \E ok \in BOOLEAN :
          /\ resp' = [resp EXCEPT ![h] = ConfigResponse(ok, payload[h])]
          /\ locked' = HeldAfterReturn(ok)
          /\ result' = [result EXCEPT ![h] = IF ok THEN "ok" ELSE "err"]
          /\ db_status' = TreeAfterPublish(db_status, payload[h], ok)
          /\ written' = [written EXCEPT
                            ![h] = WrittenAfterResult(@, payload[h], ok)]
    /\ pc' = [pc EXCEPT ![h] = "done"]
    /\ UNCHANGED << sub_pc, sample, nitems, last_value, ser_log,
                    kind, payload, waiters >>

\* the queue without task h
RECURSIVE Without(_, _)
Without(q, h) ==
    IF q = <<>> THEN <<>>
    ELSE IF Head(q) = h THEN Without(Tail(q), h)
         ELSE <<Head(q)>> \o Without(Tail(q), h)

\* whether the Mutex is still held once a handler future that was in
\* state p is dropped: a held guard is dropped with the future
HeldAfterDrop(p, held) == IF p = "write" THEN FALSE ELSE held

\* the client goes away while the handler is suspended: the server drops
\* the handler's future, and with it its place in the queue or its guard
put_dropped(h) ==
    /\ pc[h] \in {"lock", "write"}
    /\ waiters' = Without(waiters, h)
    /\ locked' = HeldAfterDrop(pc[h], locked)
    /\ pc' = [pc EXCEPT ![h] = "dropped"]
    /\ UNCHANGED << sub_vars, kind, payload, resp, written, result >>

(***************************************************************************)
(* The system.                                                             *)
(***************************************************************************)
Subscriber == SubNext \/ SubBody

Handler(h) ==
    \/ Arrive(h)
    \/ get_handler_sensor_list(h)
    \/ get_handler_sensor_status(h)
    \/ put_lock(h)
    \/ put_acquire(h)
    \/ put_return(h)
    \/ put_dropped(h)

Next == Subscriber \/ \E h \in Handlers : Handler(h)

Spec == Init /\ [][Next]_vars

\* a step of request h's handler task
Poll(h) ==
    \/ get_handler_sensor_list(h)
    \/ get_handler_sensor_status(h)
    \/ put_lock(h)
    \/ put_acquire(h)
    \/ put_return(h)

\* the program with a serializer that can fail, serving clients that stay
\* connected
SerFaultNext ==
    \/ Subscriber
    \/ SubBodySerErr
    \/ \E h \in Handlers : Arrive(h) \/ Poll(h)

SerFaultSpec == Init /\ [][SerFaultNext]_vars

\* field values for the round trip through the tree: the empty string, a
\* quote and a backslash, zero, a limb boundary and the largest u32
RoundTripTypes == {Radio, EmptyString, Lidar, <<Backslash, "n">>}
RoundTripNumbers == {U32Zero, <<1, 0>>, U32Max}

RoundTripValues ==
    { SensorStatus(t, f, p, q) :
        t \in RoundTripTypes, f \in RoundTripNumbers,
        p \in RoundTripNumbers, q \in RoundTripNumbers }

\* a fresh store, and the subscriber holding the first sample of the run
RoundTripInit ==
    /\ db_status = EmptyTree
    /\ sub_pc = "body"
    /\ \E v \in RoundTripValues :
          /\ sample = ValueItem(v)
          /\ last_value = insert(EmptyTree, key(v), v)
    /\ nitems = 1
    /\ ser_log = <<>>
    /\ pc = [h \in Handlers |-> "idle"]
    /\ kind = [h \in Handlers |-> "list"]
    /\ payload = [h \in Handlers |-> DefaultSensorConfig]
    /\ resp = [h \in Handlers |-> NoResponse]
    /\ locked = FALSE
    /\ waiters = <<>>
    /\ written = [h \in Handlers |-> <<>>]
    /\ result = [h \in Handlers |-> "none"]

\* the sample is stored, and requests are served
RoundTripNext == SubBody \/ \E h \in Handlers : Arrive(h) \/ Poll(h)

RoundTripSpec == RoundTripInit /\ [][RoundTripNext]_vars

\* the tasks run on the tokio runtime, which polls every ready task, and
\* every async_write call returns; when requests arrive and when clients go
\* away is up to the clients.  No task of the model runs for ever, so
\* fairness of the runtime as a whole is fairness to each task.
FairSpec ==
    /\ Spec
    /\ WF_vars(SubBody)
    /\ WF_vars(\E h \in Handlers : Poll(h))

(***************************************************************************)
(* Properties.                                                             *)
(***************************************************************************)
Holders == {h \in Handlers : pc[h] = "write"}
Waiting == {h \in Handlers : pc[h] = "lock"}

\* C1: at most one put_handler_sensor_config task holds the DataWriter's
\* Mutex, hence at most one async_write is in flight, in every state.
C1_MutualExclusion == Cardinality(Holders) <= 1

\* one task holds the writer while another waits for it
C1_Witness == \E h, g \in Handlers : pc[h] = "write" /\ pc[g] = "lock"

\* the subscriber holds a value for key k that it has not inserted yet
UpsertPending(k) ==
    sub_pc = "body" /\ sample.t = "value" /\ key(sample.v) = k

\* request h is answered (or its handler ends) in this step
StatusStep(h) == pc[h] = "start" /\ kind[h] = "status" /\ pc'[h] # "start"

\* C2: last write wins per key.  Once the insert of the last value the
\* stream yielded for key k is complete, the tree holds exactly that value
\* under k, and a GET /sensor/status answered from then on returns the last
\* value yielded for "radio", never an earlier one.
C2_LastWriteWins ==
    /\ [](\A k \in DOMAIN last_value :
             ~UpsertPending(k) => get(db_status, k) = <<to_string(last_value[k])>>)
    /\ [][\A h \in Handlers :
             (StatusStep(h) /\ Radio \in DOMAIN last_value /\ ~UpsertPending(Radio))
                => /\ pc'[h] = "done"
                   /\ resp'[h] = Response(OK, last_value[Radio], <<>>)]_vars

\* two values for "radio" were received and inserted in turn, and a request
\* was answered with the second
C2_Witness ==
    /\ nitems = 2
    /\ sub_pc = "next"
    /\ DOMAIN last_value = {Radio}
    /\ last_value[Radio] = SensorStatus(Radio, U32Max, U32Zero, <<1, 0>>)
    /\ \E h \in Handlers :
          /\ kind[h] = "status"
          /\ resp[h] = Response(OK, last_value[Radio], <<>>)

\* C3: a PUT /sensor/config whose async_write returned Ok is answered 200
\* with the request body, field for field.
C3_EchoOnSuccess ==
    \A h \in Handlers :
        result[h] = "ok" =>
            /\ pc[h] = "done"
            /\ resp[h].status = OK
            /\ resp[h].body.sensor_type = payload[h].sensor_type
            /\ resp[h].body.frequency = payload[h].frequency
            /\ resp[h].body.power = payload[h].power
            /\ resp[h].body.squelti = payload[h].squelti

\* a command with the largest field values was published and echoed
C3_Witness ==
    \E h \in Handlers :
        /\ result[h] = "ok"
        /\ payload[h] = SensorConfig(Lidar, U32Max, U32Zero, <<1, 0>>)
        /\ resp[h].body = payload[h]

\* C4: a PUT /sensor/config whose async_write returned Err is answered 500
\* with the default SensorConfig whatever the request body was, and the
\* step changes nothing of the subscriber task or of any other request.
C4_DefaultOnFailure ==
    /\ [](\A h \in Handlers :
             result[h] = "err" =>
                 /\ pc[h] = "done"
                 /\ resp[h].status = INTERNAL_SERVER_ERROR
                 /\ resp[h].body = DefaultSensorConfig)
    /\ [][\A h \in Handlers :
             (result[h] = "none" /\ result'[h] = "err")
                => /\ UNCHANGED sub_vars
                   /\ \A g \in Handlers \ {h} :
                         pc'[g] = pc[g] /\ resp'[g] = resp[g]]_vars

\* a publish of a non-default command failed while the subscriber task and
\* another request were under way
C4_Witness ==
    \E h, g \in Handlers :
        /\ result[h] = "err"
        /\ payload[h] # DefaultSensorConfig
        /\ pc[g] \in {"start", "lock"}
        /\ sub_pc = "body"

\* C5: the Mutex is held exactly while some handler is between its acquire
\* and its return or drop, and its queue holds exactly the handlers still
\* waiting: after a success, a failure or a drop the handle is free for the
\* next PUT /sensor/config.
C5_HandleReleased ==
    /\ locked <=> Holders # {}
    /\ {waiters[i] : i \in 1 .. Len(waiters)} = Waiting
    /\ Len(waiters) = Cardinality(Waiting)

\* after one publish failed, another request holds the handle
C5_Witness ==
    \E h, g \in Handlers :
        /\ result[h] = "err"
        /\ pc[g] = "write"

\* C6: GET /sensor/status when the tree has no entry "radio" is answered
\* 500 with the default value, without a panic, and leaves the tree as it
\* was.
C6_AbsentKey ==
    [][\A h \in Handlers :
          (StatusStep(h) /\ Radio \notin DOMAIN db_status)
             => /\ pc'[h] = "done"
                /\ resp'[h] = ErrorResponse
                /\ db_status' = db_status]_vars

\* a request was answered 500 while the tree had no entry "radio"
C6_Witness ==
    \E h \in Handlers :
        /\ kind[h] = "status"
        /\ pc[h] = "done"
        /\ resp[h] = ErrorResponse
        /\ Radio \notin DOMAIN db_status

\* the entry "radio" is there and does not deserialize
CorruptEntry(tree) ==
    /\ Radio \in DOMAIN tree
    /\ ~from_slice(tree[Radio]).ok

\* C7: GET /sensor/status on an entry that does not deserialize is answered
\* like an absent key: 500 with the default value, without a panic.
C7_CorruptLikeAbsent ==
    [][\A h \in Handlers :
          (StatusStep(h) /\ CorruptEntry(db_status))
             => /\ pc'[h] = "done"
                /\ resp'[h] = ErrorResponse]_vars

\* C8: the subscriber loop ends only when the stream itself ends; a
\* disposal or an error item does not stop it.
C8_EndsOnlyAtStreamEnd == sub_pc = "ended" => sample.t = "end"

\* C9: every request that has arrived is eventually answered, unless its
\* client went away.
C9_EveryRequestAnswered ==
    \A h \in Handlers :
        (pc[h] = "start") ~> (resp[h] # NoResponse \/ pc[h] = "dropped")

\* C10: handling a disposal or an error item leaves the tree unchanged.
C10_DisposeKeepsTree ==
    [][(sub_pc = "body" /\ sample.t \in {"dispose", "error"} /\ sub_pc' # "body")
          => db_status' = db_status]_vars

\* a value for "radio" was inserted, then its disposal was handled, and the
\* entry is still the value
C10_Witness ==
    /\ sub_pc = "ended"
    /\ sample = DisposeItem(Radio)
    /\ Radio \in DOMAIN last_value
    /\ get(db_status, Radio) = <<to_string(last_value[Radio])>>

\* the subscriber's loop body ends in this step on a value whose
\* serialization failed
SerErrStep ==
    /\ sub_pc = "body"
    /\ sample.t = "value"
    /\ ser_log' = Append(ser_log, FALSE)

\* C11: a value whose serialization fails is dropped: the tree is left as it
\* was, the task does not end, and it goes on to take the next item.
C11_SerErrDropsItem ==
    [][SerErrStep => /\ db_status' = db_status
                     /\ sub_pc' = "next"]_vars

\* the first value could not be serialized; the second one was received
\* after it and inserted
C11_Witness ==
    /\ ser_log = <<FALSE, TRUE>>
    /\ sub_pc = "next"
    /\ DOMAIN last_value = {Radio}
    /\ get(db_status, Radio) = <<to_string(last_value[Radio])>>

\* C12: entries of the tree are never deleted: a key that is in the tree
\* is in it after every step.
C12_KeysOnlyGrow == [][DOMAIN db_status \subseteq DOMAIN db_status']_vars

\* the disposal of "radio" was handled and requests were served, and the
\* entry "radio" is still there
C12_Witness ==
    /\ sub_pc = "ended"
    /\ sample = DisposeItem(Radio)
    /\ Radio \in DOMAIN db_status
    /\ \E h, g \in Handlers :
          /\ result[h] # "none"
          /\ kind[g] = "status" /\ pc[g] = "done"

\* C13: the bytes the subscriber stores for a value deserialize to that
\* value, field for field, and GET /sensor/status answers with the value
\* stored under "radio".
C13_RoundTrip ==
    /\ \A k \in DOMAIN last_value :
          ~UpsertPending(k) =>
              /\ k \in DOMAIN db_status
              /\ from_slice(db_status[k]) = [ok |-> TRUE, val |-> last_value[k]]
    /\ \A h \in Handlers :
          (kind[h] = "status" /\ pc[h] \notin {"idle", "start"}) =>
              /\ pc[h] = "done"
              /\ \/ resp[h] = ErrorResponse
                 \/ /\ Radio \in DOMAIN last_value
                    /\ resp[h] = Response(OK, last_value[Radio], <<>>)

\* a "radio" value with zero and largest fields was stored and read back
C13_Witness ==
    \E h \in Handlers :
        /\ kind[h] = "status"
        /\ resp[h] = Response(OK, SensorStatus(Radio, U32Max, U32Zero, U32Max), <<>>)
        /\ get(db_status, Radio) = <<to_string(resp[h].body)>>

\* C14: the subscriber task is the only writer of the tree: no step of a
\* request handler changes it, so a command published for a key is not
\* what GET /sensor/status returns.
C14_HandlersLeaveTree == [][pc' # pc => db_status' = db_status]_vars

\* a command for "radio" was published, and the tree still has no entry
\* "radio" for GET /sensor/status to return
C14_Witness ==
    \E h, g \in Handlers :
        /\ result[h] = "ok"
        /\ key(payload[h]) = Radio
        /\ Radio \notin DOMAIN db_status
        /\ kind[g] = "status"
        /\ resp[g] = ErrorResponse

\* C15: each PUT /sensor/config calls async_write once, with the request
\* body (whose key is its sensor_type), whether the call succeeds or
\* fails; a failed publish is not tried again.
C15_PublishedOnce ==
    \A h \in Handlers :
        /\ Len(written[h]) <= 1
        /\ pc[h] \in {"idle", "start", "lock"} => written[h] = <<>>
        /\ (pc[h] = "write" \/ result[h] # "none") =>
              /\ written[h] = <<payload[h]>>
              /\ key(written[h][1]) = payload[h].sensor_type

\* a publish failed, and the handler had called async_write once
C15_Witness ==
    \E h \in Handlers :
        /\ result[h] = "err"
        /\ payload[h] \in Commands
        /\ written[h] = <<payload[h]>>

\* C16: when the stream ends (next() yields None) the subscriber task
\* ends; from then on it takes no item and the tree does not change, while
\* GET /sensor/status goes on returning the last value stored.
C16_StopsForGood ==
    /\ [][(sub_pc = "body" /\ sample.t = "end" /\ sub_pc' # "body")
             => sub_pc' = "ended" /\ db_status' = db_status]_vars
    /\ [][sub_pc = "ended"
             => /\ sub_pc' = "ended"
                /\ db_status' = db_status
                /\ nitems' = nitems]_vars
    /\ [][\A h \in Handlers :
             (sub_pc = "ended" /\ StatusStep(h) /\ Radio \in DOMAIN last_value)
                => /\ pc'[h] = "done"
                   /\ resp'[h] = Response(OK, last_value[Radio], <<>>)]_vars

\* the stream ended after a value for "radio"; a request got that value and
\* another one is being served
C16_Witness ==
    /\ sub_pc = "ended"
    /\ sample = EndItem
    /\ Radio \in DOMAIN last_value
    /\ \E h, g \in Handlers :
          /\ kind[h] = "status"
          /\ resp[h] = Response(OK, last_value[Radio], <<>>)
          /\ pc[g] = "write"

\* C17: the subscriber task never waits for the request handlers: with an
\* item in hand its loop body can run, and with the stream ready its next()
\* can return, whatever the handlers do and whether or not the writer's
\* Mutex is held.
C17_SubscriberNeverBlocked ==
    /\ sub_pc = "body" => ENABLED SubBody
    /\ (sub_pc = "next" /\ nitems < MaxItems) => ENABLED SubNext

\* the loop body can run on the item in hand while one handler holds the
\* writer, its publish in flight, and another waits for it
C17_Witness ==
    /\ sub_pc = "body"
    /\ sample.t = "value"
    /\ locked
    /\ Waiting # {}
    /\ ENABLED SubBody

\* the loop body stores the value in hand in this step
ValueStep == sub_pc = "body" /\ sample.t = "value" /\ sub_pc' = "next"

\* C18: storing a value of key k sets exactly the entry k, to the value's
\* bytes, and leaves every other entry as it was.
C18_PerKeyUpsert ==
    [][ValueStep =>
          /\ DOMAIN db_status' = DOMAIN db_status \cup {key(sample.v)}
          /\ db_status'[key(sample.v)] = to_string(sample.v)
          /\ \A k \in DOMAIN db_status \ {key(sample.v)} :
                db_status'[k] = db_status[k]]_vars

\* a value was stored under each of two keys, and each entry is the value
\* of its own key
C18_Witness ==
    /\ sub_pc = "next"
    /\ DOMAIN last_value = {Radio, Lidar}
    /\ \A k \in DOMAIN last_value :
          get(db_status, k) = <<to_string(last_value[k])>>

\* the tree with every entry but "radio" removed
RadioOnly(tree) == [k \in (DOMAIN tree) \cap {Radio} |-> tree[k]]

\* C19: the answer of GET /sensor/status is a function of the entry "radio"
\* alone: it is the answer the handler gives on the tree stripped of every
\* other entry, so two trees that agree on "radio" get the same answer, and
\* without an entry "radio" the answer is 500 with the default value
\* whatever the other keys hold.
C19_OnlyRadioRead ==
    [][\A h \in Handlers :
          StatusStep(h) =>
              /\ pc'[h] = StatusOutcome(RadioOnly(db_status)).pc
              /\ resp'[h] = StatusOutcome(RadioOnly(db_status)).resp
              /\ Radio \notin DOMAIN db_status => resp'[h] = ErrorResponse]_vars

\* a value was stored under another key, there is no entry "radio", and a
\* request was answered 500 with the default value
C19_Witness ==
    /\ Lidar \in DOMAIN db_status
    /\ Radio \notin DOMAIN db_status
    /\ \E h \in Handlers :
          /\ kind[h] = "status"
          /\ pc[h] = "done"
          /\ resp[h] = ErrorResponse

\* request h, for one of the two GET routes, is handled in this step
ReadStep(h) ==
    pc[h] = "start" /\ kind[h] \in {"list", "status"} /\ pc'[h] # "start"

\* C20: the two GET handlers never take or wait for the writer's Mutex, so
\* each can run, and completes with a response, also while a PUT handler
\* holds the Mutex with its publish in flight.
C20_ReadsAnswerWhileHeld ==
    /\ [](\A h \in Handlers :
             /\ (pc[h] = "start" /\ kind[h] = "list")
                   => ENABLED get_handler_sensor_list(h)
             /\ (pc[h] = "start" /\ kind[h] = "status")
                   => ENABLED get_handler_sensor_status(h))
    /\ [][\A h \in Handlers :
             ReadStep(h) => locked' = locked /\ waiters' = waiters]_vars
    /\ [][\A h \in Handlers :
             (ReadStep(h) /\ locked)
                => pc'[h] = "done" /\ resp'[h] # NoResponse]_vars

====
